---- MODULE Spec2Model ----
(***************************************************************************)
(* Model of the luna-oled status indicator (src/display-status.py) and of  *)
(* the SSD1306 driver it shares with src/test.py.                          *)
(*                                                                         *)
(* The interpreter runs one thread.  A signal handler runs between two     *)
(* steps of that thread, calls cleanup() and leaves by SystemExit, so the  *)
(* activity it interrupted never resumes; what remains of that activity   *)
(* is only whether main() still has its finally block ahead of it.         *)
(***************************************************************************)
EXTENDS Integers, Sequences, FiniteSets, TLC

VARIABLES
    pc,              \* position of the running code
    phase,           \* where main() is: "pre" (before try), "try", "finally"
    caller,          \* who called display_image: "enc", "startup", "loop",
                     \* "blank", "dash"
    oled,            \* the global oled: "None" or "SSD1306"
    bus,             \* the SMBus handle: "none", "open", "closed"
    width, height,   \* SSD1306.width, SSD1306.height
    image,           \* the PIL image handed to display_image: its set pixels
    page, k,         \* display_image / clear: current page, write within it
    idx,             \* init_display: index of the next init command
    step,            \* display_startup_face: iterations done
    SERVICE_RUNNING, GENERATING, CONNECTED,
    frame_index,
    scene,           \* what the last draw call drew
    slept,           \* duration (ms) of the last time.sleep of the loop
    sent,            \* bus writes of the transfer in progress
    obs,             \* observations kept for the properties
    dummy_npu_val,   \* display.py: the animated NPU value
    direction        \* display.py: the way dummy_npu_val is moving

vars == <<pc, phase, caller, oled, bus, width, height, image, page, k, idx,
          step, SERVICE_RUNNING, GENERATING, CONNECTED, frame_index, scene,
          slept, sent, obs, dummy_npu_val, direction>>

\* the variables of the dashboard of display.py
dash == <<dummy_npu_val, direction>>

(***************************************************************************)
(* Bounds of the model.                                                    *)
(***************************************************************************)
MaxW == 2          \* encoder: widths 1..MaxW
MaxPages == 2      \* encoder: heights 8, 16, .., 8*MaxPages
OledW == 2         \* status indicator: width of the (scaled down) panel
OledPages == 2     \* status indicator: pages of the (scaled down) panel
MaxTicks == 26     \* loop iterations explored, the loop alone
MaxLoops == 3      \* loop iterations explored, the whole program
MaxSignals == 2    \* signals delivered
BlankW == 4        \* blanking: widths 1..BlankW
BlankPages == 3    \* blanking: heights 8, 16, .., 8*BlankPages

(***************************************************************************)
(* Bus transport: write_byte_data(addr, register, value).                  *)
(***************************************************************************)
CMD_REG == 0       \* 0x00, write_cmd
DATA_REG == 64     \* 0x40, write_data

write_cmd(log, cmd) == Append(log, [reg |-> CMD_REG, val |-> cmd])

write_data(log, data) == Append(log, [reg |-> DATA_REG, val |-> data])

(***************************************************************************)
(* Images.  A mode '1' image is the set of its set pixels <<x, y>>;        *)
(* getpixel returns 255 for a set pixel and 0 for a clear one.             *)
(***************************************************************************)
Pixels(w, h) == (0 .. w - 1) \X (0 .. h - 1)

\* a getpixel that answers 255 for a clear pixel and 0 for a set one
getpixelInverted(img, x, y) == IF <<x, y>> \in img THEN 0 ELSE 255

getpixel(img, x, y) == IF <<x, y>> \in img THEN 255 ELSE 0

\* The sample images: blank, one pixel, two pixels, and their inverses.
Bitmaps(w, h) ==
    LET few == {{}} \cup {{p, q} : p \in Pixels(w, h), q \in Pixels(w, h)}
    IN  few \cup {Pixels(w, h) \ f : f \in few}

RECURSIVE Pow2(_)
Pow2(n) == IF n = 0 THEN 1 ELSE 2 * Pow2(n - 1)

\* bit b (0 = least significant) of a byte
BitOf(byte, b) == (byte \div Pow2(b)) % 2

\* byte = mask, the accumulated bits dropped
BitAssign(byte, mask) == mask

\* byte | mask, for a mask of one bit
BitOr(byte, mask) == IF (byte \div mask) % 2 = 1 THEN byte ELSE byte + mask

\* the mask with the most significant bit first
BitMaskMSB(bit) == Pow2(7 - bit)

\* 1 << bit
BitMask(bit) == Pow2(bit)

\* the inner loop of display_image: the byte of column x of page pg
RECURSIVE PackBits(_, _, _, _, _, _)
PackBits(img, h, pg, x, bit, byte) ==
    IF bit = 8 THEN byte
    ELSE LET y == pg * 8 + bit
             nb == IF y < h /\ getpixel(img, x, y) # 0
                   THEN BitOr(byte, BitMask(bit))
                   ELSE byte
         IN  PackBits(img, h, pg, x, bit + 1, nb)

PageByte(img, h, pg, x) == PackBits(img, h, pg, x, 0, 0)

\* self.pages = height // 8
pages == height \div 8

\* the addressing commands with the column sent before the page
AddrCmdSwapped(pg, n) == IF n = 0 THEN 0 ELSE IF n = 1 THEN 176 + pg ELSE 16

\* the three addressing commands that open a page: 0xB0 + page, 0x00, 0x10
AddrCmd(pg, n) == IF n = 0 THEN 176 + pg ELSE IF n = 1 THEN 0 ELSE 16

\* where display_image returns to
AfterRender == IF caller = "startup" THEN "startup"
               ELSE IF caller = "loop" THEN "inc"
               ELSE IF caller = "dash" THEN "dash_sleep"
               ELSE "rendered"

\* display_image, one addressing command (write_cmd succeeds, then sleeps
\* its 1 ms)
DisplayImageCmd ==
    /\ pc = "render" /\ bus = "open" /\ k < 3
    /\ sent' = write_cmd(sent, AddrCmd(page, k))
    /\ k' = k + 1
    /\ obs' = [obs EXCEPT !.settles = IF caller = "loop" THEN @ + 1 ELSE @]
    /\ UNCHANGED <<pc, phase, caller, oled, bus, width, height, image, page,
                   idx, step, SERVICE_RUNNING, GENERATING, CONNECTED,
                   frame_index, scene, slept>>
    /\ UNCHANGED dash

\* the page visited after pg: for page in range(self.pages)
NextPage(pg) == pg + 1

\* display_image, one data byte (write_data succeeds); after the last column
\* of the last page the call returns
DisplayImageData ==
    /\ pc = "render" /\ bus = "open" /\ k >= 3
    /\ sent' = write_data(sent, PageByte(image, height, page, k - 3))
    /\ IF k - 3 < width - 1
       THEN /\ k' = k + 1
            /\ UNCHANGED <<pc, page, step>>
       ELSE IF NextPage(page) < pages
       THEN /\ k' = 0
            /\ page' = NextPage(page)
            /\ UNCHANGED <<pc, step>>
       ELSE /\ pc' = AfterRender
            /\ step' = IF caller = "startup" THEN step + 1 ELSE step
            /\ UNCHANGED <<page, k>>
    /\ UNCHANGED <<phase, caller, oled, bus, width, height, image, idx,
                   SERVICE_RUNNING, GENERATING, CONNECTED, frame_index,
                   scene, slept, obs>>
    /\ UNCHANGED dash

NoScene == [kind |-> "none", pos |-> 0, angle |-> 0, tick |-> 0]

\* cleanups: calls of cleanup(); completed: those that reached sys.exit;
\* closes: calls of bus.close(); closedWrites: writes tried on a closed bus;
\* signals: signals delivered; fetch: how this tick's health poll went;
\* raisedBy: what raised the exception main() caught; drawn: the scene of
\* this tick is drawn; prev: the scene kind of the previous tick;
\* readyRun: pupil offsets of the current run of ServicesReady ticks (the
\* last full block of 4 and the block in progress); readyEntry: the
\* frame_index of the first tick of readyRun; naps: calls of the loop's own
\* time.sleep in the iteration in progress; settles: the 1 ms time.sleep
\* calls of write_cmd in the iteration in progress; ref: a status and the
\* scene kind drawn for it, remembered from an earlier tick; blank: the bus
\* writes of the render of the all-zero bitmap that preceded a clear; npu:
\* the NPU value last passed to draw_dashboard (-1: none yet).
NoRef == [up |-> FALSE, peer |-> FALSE, gen |-> FALSE, kind |-> "none"]

NoObs == [cleanups |-> 0, completed |-> 0, closes |-> 0, closedWrites |-> 0,
          signals |-> 0, fetch |-> "none", raisedBy |-> "none",
          drawn |-> FALSE, prev |-> "none", readyRun |-> <<>>,
          readyEntry |-> 0, naps |-> 0, settles |-> 0, ref |-> NoRef,
          blank |-> <<>>, npu |-> -1]

(***************************************************************************)
(* The encoder alone: one display_image call on a sample image whose size  *)
(* is the panel's.                                                         *)
(***************************************************************************)
InitEnc ==
    /\ pc = "render" /\ phase = "try" /\ caller = "enc"
    /\ oled = "SSD1306" /\ bus = "open"
    /\ width \in 1 .. MaxW
    /\ height \in {8 * p : p \in 1 .. MaxPages}
    /\ image \in Bitmaps(width, height)
    /\ page = 0 /\ k = 0 /\ idx = 0 /\ step = 0
    /\ SERVICE_RUNNING = FALSE /\ GENERATING = FALSE /\ CONNECTED = FALSE
    /\ frame_index = 0 /\ scene = NoScene /\ slept = 0
    /\ sent = <<>> /\ obs = NoObs
    /\ dummy_npu_val = 0 /\ direction = 1

NextEnc == DisplayImageCmd \/ DisplayImageData

SpecEnc == InitEnc /\ [][NextEnc]_vars

(***************************************************************************)
(* The status indicator: main() of display-status.py.                      *)
(***************************************************************************)
\* what the rasterizer may leave in an image: any pixels; two samples
Raster(w, h) == {{}, Pixels(w, h)}

\* an init list that switches the display on before the charge pump
init_cmds_on_early ==
    <<174, 32, 0, 176, 200, 0, 16, 64, 129, 255,
      161, 166, 168, 63, 164, 211, 0, 213, 240, 217,
      34, 218, 18, 219, 32, 175, 141, 20>>

\* init_cmds of init_display
init_cmds ==
    <<174, 32, 0, 176, 200, 0, 16, 64, 129, 255,
      161, 166, 168, 63, 164, 211, 0, 213, 240, 217,
      34, 218, 18, 219, 32, 141, 20, 175>>

eye_height_max == 20

\* len(range(1, eye_height_max + 1)): one frame per unit of eye height
StartupStepsUnit == eye_height_max

\* len(range(1, eye_height_max + 1, 2))
StartupSteps == (eye_height_max + 1) \div 2

pupil_positions == <<-4, 0, 4, 0>>

\* the pupil offset indexed by the run length instead of frame_index
PupilPosFromRun(f) == pupil_positions[(Len(obs.readyRun) % 4) + 1]

\* pupil_positions[frame_index % len(pupil_positions)]
PupilPos(f) == pupil_positions[(f % Len(pupil_positions)) + 1]

\* the angle reduced modulo 360
AngleReduced(f) == (f * 15) % 360

\* angle = frame_index * 15
Angle(f) == f * 15

\* the chain with the generating test before the connected test
SceneKindThinkingFirst(up, peer, gen) ==
    IF ~up THEN "Offline"
    ELSE IF gen THEN "Thinking"
    ELSE IF peer THEN "Connected"
    ELSE "ServicesReady"

\* the chain with a Connected scene that dwells one more tick
SceneKindSticky(up, peer, gen) ==
    IF ~up THEN "Offline"
    ELSE IF peer \/ obs.prev = "Connected" THEN "Connected"
    ELSE IF gen THEN "Thinking"
    ELSE "ServicesReady"

\* the if / elif chain of the loop
SceneKind(up, peer, gen) ==
    IF ~up THEN "Offline"
    ELSE IF peer THEN "Connected"
    ELSE IF gen THEN "Thinking"
    ELSE "ServicesReady"

\* one sleep of 0.5 s whatever the branch
SleepMsFlat(kind) == 500

\* the time.sleep of each branch, in milliseconds
SleepMs(kind) ==
    IF kind = "Offline" THEN 2000
    ELSE IF kind = "Connected" THEN 2000
    ELSE IF kind = "Thinking" THEN 20
    ELSE 500

\* print(...) before the try block
Start ==
    /\ pc = "start"
    /\ pc' = "open" /\ phase' = "try"
    /\ UNCHANGED <<caller, oled, bus, width, height, image, page, k, idx,
                   step, SERVICE_RUNNING, GENERATING, CONNECTED, frame_index,
                   scene, slept, sent, obs>>
    /\ UNCHANGED dash

\* SSD1306.__init__ up to smbus2.SMBus(bus_num): the bus opens or raises
OpenBus ==
    /\ pc = "open"
    /\ \/ /\ bus' = "open" /\ pc' = "init" /\ idx' = 0 /\ sent' = <<>>
          /\ obs' = obs
       \/ /\ pc' = "fatal" /\ obs' = [obs EXCEPT !.raisedBy = "open"]
          /\ UNCHANGED <<bus, idx, sent>>
    /\ UNCHANGED <<phase, caller, oled, width, height, image, page, k, step,
                   SERVICE_RUNNING, GENERATING, CONNECTED, frame_index,
                   scene, slept>>
    /\ UNCHANGED dash

\* init_display, one command (write_cmd succeeds)
InitCmd ==
    /\ pc = "init" /\ bus = "open"
    /\ sent' = write_cmd(sent, init_cmds[idx + 1])
    /\ idx' = idx + 1
    /\ pc' = IF idx + 1 = Len(init_cmds) THEN "assign" ELSE "init"
    /\ UNCHANGED <<phase, caller, oled, bus, width, height, image, page, k,
                   step, SERVICE_RUNNING, GENERATING, CONNECTED, frame_index,
                   scene, slept, obs>>
    /\ UNCHANGED dash

\* oled = SSD1306(...): the constructor has returned, the global is bound
Assign ==
    /\ pc = "assign"
    /\ oled' = "SSD1306" /\ pc' = "startup" /\ step' = 0
    /\ UNCHANGED <<phase, caller, bus, width, height, image, page, k, idx,
                   SERVICE_RUNNING, GENERATING, CONNECTED, frame_index,
                   scene, slept, sent, obs>>
    /\ UNCHANGED dash

\* display_startup_face, one iteration up to its display_image call
StartupDraw ==
    /\ pc = "startup" /\ step < StartupSteps
    /\ image' \in Raster(width, height)
    /\ scene' = [kind |-> "Startup", pos |-> 0, angle |-> 0,
                 tick |-> 1 + 2 * step]
    /\ caller' = "startup" /\ pc' = "render"
    /\ page' = 0 /\ k' = 0 /\ sent' = <<>>
    /\ UNCHANGED <<phase, oled, bus, width, height, idx, step,
                   SERVICE_RUNNING, GENERATING, CONNECTED, frame_index,
                   slept, obs>>
    /\ UNCHANGED dash

\* the end of display_startup_face, then frame_index = 0
StartupEnd ==
    /\ pc = "startup" /\ step = StartupSteps
    /\ frame_index' = 0 /\ pc' = "get_llm_status"
    /\ UNCHANGED <<phase, caller, oled, bus, width, height, image, page, k,
                   idx, step, SERVICE_RUNNING, GENERATING, CONNECTED, scene,
                   slept, sent, obs>>
    /\ UNCHANGED dash

\* what the health endpoint may answer
HealthOutcomes ==
    {"generating", "idle", "non200", "timeout", "refused", "badjson",
     "nonobject"}

FetchFailures == {"non200", "timeout", "refused"}

\* get_llm_status without its except clause
get_llm_status_uncaught(out, raises, up, gen) ==
    IF out = "generating" THEN [up |-> TRUE, gen |-> TRUE, raised |-> FALSE]
    ELSE IF out = "idle" THEN [up |-> TRUE, gen |-> FALSE, raised |-> FALSE]
    ELSE IF out = "non200"
    THEN [up |-> FALSE, gen |-> FALSE, raised |-> FALSE]
    ELSE IF out = "nonobject" THEN [up |-> TRUE, gen |-> gen, raised |-> TRUE]
    ELSE [up |-> up, gen |-> gen, raised |-> TRUE]

\* get_llm_status: the globals it leaves and whether it raises.  A body that
\* is not JSON makes response.json() raise an error that is a
\* RequestException in some releases of requests and a plain ValueError in
\* others (raises tells which); a JSON body that is no object makes
\* data.get raise AttributeError after SERVICE_RUNNING = True.
get_llm_status_result(out, raises, up, gen) ==
    IF out = "generating" THEN [up |-> TRUE, gen |-> TRUE, raised |-> FALSE]
    ELSE IF out = "idle" THEN [up |-> TRUE, gen |-> FALSE, raised |-> FALSE]
    ELSE IF out \in FetchFailures
    THEN [up |-> FALSE, gen |-> FALSE, raised |-> FALSE]
    ELSE IF out = "badjson"
    THEN IF raises THEN [up |-> up, gen |-> gen, raised |-> TRUE]
         ELSE [up |-> FALSE, gen |-> FALSE, raised |-> FALSE]
    ELSE [up |-> TRUE, gen |-> gen, raised |-> TRUE]

get_llm_status ==
    /\ pc = "get_llm_status"
    /\ \E out \in HealthOutcomes : \E raises \in BOOLEAN :
         LET r == get_llm_status_result(out, raises, SERVICE_RUNNING,
                                        GENERATING)
         IN  /\ SERVICE_RUNNING' = r.up
             /\ GENERATING' = r.gen
             /\ pc' = IF r.raised THEN "fatal" ELSE "check_luna_active"
             /\ obs' = [obs EXCEPT
                          !.fetch = IF out \in FetchFailures THEN "failed"
                                    ELSE IF out \in {"badjson", "nonobject"}
                                    THEN "malformed" ELSE "ok",
                          !.raisedBy = IF r.raised THEN "health" ELSE @]
    /\ UNCHANGED <<phase, caller, oled, bus, width, height, image, page, k,
                   idx, step, CONNECTED, frame_index, scene, slept, sent>>
    /\ UNCHANGED dash

\* what the peer-active endpoint may answer
LunaOutcomes ==
    {"active", "inactive", "nokey", "httperror", "timeout", "badjson",
     "nonobject"}

\* check_luna_active: CONNECTED as it leaves it and whether it raises
check_luna_active_result(out, peer) ==
    IF out = "active" THEN [peer |-> TRUE, raised |-> FALSE]
    ELSE IF out = "nonobject" THEN [peer |-> peer, raised |-> TRUE]
    ELSE [peer |-> FALSE, raised |-> FALSE]

check_luna_active ==
    /\ pc = "check_luna_active"
    /\ \E out \in LunaOutcomes :
         LET r == check_luna_active_result(out, CONNECTED)
         IN  /\ CONNECTED' = r.peer
             /\ pc' = IF r.raised THEN "fatal" ELSE "draw"
             /\ obs' = [obs EXCEPT
                          !.raisedBy = IF r.raised THEN "luna" ELSE @]
    /\ UNCHANGED <<phase, caller, oled, bus, width, height, image, page, k,
                   idx, step, SERVICE_RUNNING, GENERATING, frame_index,
                   scene, slept, sent>>
    /\ UNCHANGED dash

\* image = Image.new(...) and the draw call of the branch taken
Draw ==
    /\ pc = "draw"
    /\ LET kind == SceneKind(SERVICE_RUNNING, CONNECTED, GENERATING)
           pos == IF kind = "ServicesReady" THEN PupilPos(frame_index) ELSE 0
           run == obs.readyRun
       IN  /\ scene' = [kind |-> kind, pos |-> pos,
                        angle |-> IF kind = "Thinking"
                                  THEN Angle(frame_index) ELSE 0,
                        tick |-> frame_index]
           /\ obs' = [obs EXCEPT
                        !.drawn = TRUE,
                        !.readyRun =
                           IF kind # "ServicesReady" THEN <<>>
                           ELSE IF Len(run) = 8
                           THEN SubSeq(run, 5, 8) \o <<pos>>
                           ELSE Append(run, pos),
                        !.readyEntry =
                           IF kind # "ServicesReady" \/ run = <<>>
                           THEN frame_index
                           ELSE IF Len(run) = 8 THEN @ + 4 ELSE @]
    /\ image' \in Raster(width, height)
    /\ pc' = "sleep"
    /\ UNCHANGED <<phase, caller, oled, bus, width, height, page, k, idx,
                   step, SERVICE_RUNNING, GENERATING, CONNECTED, frame_index,
                   slept, sent>>
    /\ UNCHANGED dash

\* the time.sleep of the branch taken, then the call of display_image
Sleep ==
    /\ pc = "sleep"
    /\ slept' = SleepMs(scene.kind)
    /\ obs' = [obs EXCEPT !.naps = @ + 1]
    /\ caller' = "loop" /\ pc' = "render"
    /\ page' = 0 /\ k' = 0 /\ sent' = <<>>
    /\ UNCHANGED <<phase, oled, bus, width, height, image, idx, step,
                   SERVICE_RUNNING, GENERATING, CONNECTED, frame_index,
                   scene>>
    /\ UNCHANGED dash

\* frame_index advanced on the animated scenes only
IncAnimatedOnly ==
    /\ pc = "inc"
    /\ frame_index' = IF scene.kind \in {"Connected", "Offline"}
                      THEN frame_index ELSE frame_index + 1
    /\ pc' = "get_llm_status"
    /\ obs' = [obs EXCEPT !.drawn = FALSE, !.fetch = "none",
                          !.prev = scene.kind, !.naps = 0, !.settles = 0]
    /\ UNCHANGED <<phase, caller, oled, bus, width, height, image, page, k,
                   idx, step, SERVICE_RUNNING, GENERATING, CONNECTED, scene,
                   slept, sent>>
    /\ UNCHANGED dash

\* frame_index += 1, and back to the head of the loop
Inc ==
    /\ pc = "inc"
    /\ frame_index' = frame_index + 1
    /\ pc' = "get_llm_status"
    /\ obs' = [obs EXCEPT !.drawn = FALSE, !.fetch = "none",
                          !.prev = scene.kind, !.naps = 0, !.settles = 0]
    /\ UNCHANGED <<phase, caller, oled, bus, width, height, image, page, k,
                   idx, step, SERVICE_RUNNING, GENERATING, CONNECTED, scene,
                   slept, sent>>
    /\ UNCHANGED dash

\* where an exception raised by a bus write lands: the except clause of
\* cleanup() when clear() raised it, that of main() otherwise
Raise == IF pc = "clear" THEN "cl_err" ELSE "fatal"

\* a write on the open bus fails (OSError from the I2C transfer)
BusWriteFails ==
    /\ pc \in {"init", "render", "clear"} /\ bus = "open"
    /\ pc' = Raise
    /\ obs' = [obs EXCEPT !.raisedBy = IF pc = "clear" THEN @ ELSE "write"]
    /\ UNCHANGED <<phase, caller, oled, bus, width, height, image, page, k,
                   idx, step, SERVICE_RUNNING, GENERATING, CONNECTED,
                   frame_index, scene, slept, sent>>
    /\ UNCHANGED dash

\* a write on the closed bus: the handle is gone, the call raises
WriteOnClosed ==
    /\ pc \in {"init", "render", "clear"} /\ bus = "closed"
    /\ pc' = Raise
    /\ obs' = [obs EXCEPT !.closedWrites = @ + 1,
                          !.raisedBy = IF pc = "clear" THEN @ ELSE "write"]
    /\ UNCHANGED <<phase, caller, oled, bus, width, height, image, page, k,
                   idx, step, SERVICE_RUNNING, GENERATING, CONNECTED,
                   frame_index, scene, slept, sent>>
    /\ UNCHANGED dash

\* except Exception as e: print(...), then the finally block calls cleanup();
\* the iteration in progress is over
Fatal ==
    /\ pc = "fatal"
    /\ phase' = "finally" /\ pc' = "cleanup"
    /\ obs' = [obs EXCEPT !.naps = 0, !.settles = 0]
    /\ UNCHANGED <<caller, oled, bus, width, height, image, page, k, idx,
                   step, SERVICE_RUNNING, GENERATING, CONNECTED, frame_index,
                   scene, slept, sent>>
    /\ UNCHANGED dash

\* signal_handler: SIGINT or SIGTERM arrives between two steps; the handler
\* calls cleanup() on top of whatever was running, which never resumes
signal_handler ==
    /\ pc # "exited" /\ obs.signals < MaxSignals
    /\ pc' = "cleanup"
    /\ obs' = [obs EXCEPT !.signals = @ + 1, !.naps = 0, !.settles = 0]
    /\ UNCHANGED <<phase, caller, oled, bus, width, height, image, page, k,
                   idx, step, SERVICE_RUNNING, GENERATING, CONNECTED,
                   frame_index, scene, slept, sent>>
    /\ UNCHANGED dash

\* cleanup() without its test of oled
cleanup_guard_always == TRUE

\* if oled:
cleanup_guard == oled = "SSD1306"

\* cleanup(), its entry: if oled: try: oled.clear() ...
cleanup ==
    /\ pc = "cleanup"
    /\ obs' = [obs EXCEPT !.cleanups = @ + 1]
    /\ IF cleanup_guard
       THEN pc' = "clear" /\ page' = 0 /\ k' = 0 /\ sent' = <<>>
       ELSE pc' = "sys_exit" /\ UNCHANGED <<page, k, sent>>
    /\ UNCHANGED <<phase, caller, oled, bus, width, height, image, idx, step,
                   SERVICE_RUNNING, GENERATING, CONNECTED, frame_index,
                   scene, slept>>
    /\ UNCHANGED dash

\* clear, one addressing command (write_cmd succeeds)
ClearCmd ==
    /\ pc = "clear" /\ bus = "open" /\ k < 3
    /\ sent' = write_cmd(sent, AddrCmd(page, k))
    /\ k' = k + 1
    /\ UNCHANGED <<pc, phase, caller, oled, bus, width, height, image, page,
                   idx, step, SERVICE_RUNNING, GENERATING, CONNECTED,
                   frame_index, scene, slept, obs>>
    /\ UNCHANGED dash

\* clear, one zero data byte (write_data succeeds); after the last column of
\* the last page cleanup() goes on to oled.close()
ClearData ==
    /\ pc = "clear" /\ bus = "open" /\ k >= 3
    /\ sent' = write_data(sent, 0)
    /\ IF k - 3 < width - 1
       THEN k' = k + 1 /\ UNCHANGED <<pc, page>>
       ELSE IF NextPage(page) < pages
       THEN k' = 0 /\ page' = NextPage(page) /\ UNCHANGED pc
       ELSE pc' = "close" /\ UNCHANGED <<page, k>>
    /\ UNCHANGED <<phase, caller, oled, bus, width, height, image, idx, step,
                   SERVICE_RUNNING, GENERATING, CONNECTED, frame_index,
                   scene, slept, obs>>
    /\ UNCHANGED dash

\* oled.close(): self.bus.close()
close ==
    /\ pc = "close"
    /\ bus' = "closed"
    /\ obs' = [obs EXCEPT !.closes = @ + 1]
    /\ pc' = "sys_exit"
    /\ UNCHANGED <<phase, caller, oled, width, height, image, page, k, idx,
                   step, SERVICE_RUNNING, GENERATING, CONNECTED, frame_index,
                   scene, slept, sent>>
    /\ UNCHANGED dash

\* except Exception as e: print(f"Error during cleanup: {e}")
CleanupError ==
    /\ pc = "cl_err"
    /\ pc' = "sys_exit"
    /\ UNCHANGED <<phase, caller, oled, bus, width, height, image, page, k,
                   idx, step, SERVICE_RUNNING, GENERATING, CONNECTED,
                   frame_index, scene, slept, sent, obs>>
    /\ UNCHANGED dash

\* sys.exit(0): SystemExit unwinds.  No except clause catches it; when main()
\* is still inside its try block the finally block runs and calls cleanup()
\* again, otherwise the process ends.
sys_exit ==
    /\ pc = "sys_exit"
    /\ obs' = [obs EXCEPT !.completed = @ + 1]
    /\ IF phase = "try"
       THEN phase' = "finally" /\ pc' = "cleanup"
       ELSE pc' = "exited" /\ UNCHANGED phase
    /\ UNCHANGED <<caller, oled, bus, width, height, image, page, k, idx,
                   step, SERVICE_RUNNING, GENERATING, CONNECTED, frame_index,
                   scene, slept, sent>>
    /\ UNCHANGED dash

Init ==
    /\ pc = "start" /\ phase = "pre" /\ caller = "none"
    /\ oled = "None" /\ bus = "none"
    /\ width = OledW /\ height = 8 * OledPages
    /\ image = {}
    /\ page = 0 /\ k = 0 /\ idx = 0 /\ step = 0
    /\ SERVICE_RUNNING = FALSE /\ GENERATING = FALSE /\ CONNECTED = FALSE
    /\ frame_index = 0 /\ scene = NoScene /\ slept = 0
    /\ sent = <<>> /\ obs = NoObs
    /\ dummy_npu_val = 0 /\ direction = 1

Next ==
    \/ Start \/ OpenBus \/ InitCmd \/ Assign \/ StartupDraw \/ StartupEnd
    \/ get_llm_status \/ check_luna_active \/ Draw \/ Sleep
    \/ DisplayImageCmd \/ DisplayImageData
    \/ (frame_index < MaxLoops /\ Inc)
    \/ BusWriteFails \/ WriteOnClosed \/ Fatal \/ signal_handler
    \/ cleanup \/ ClearCmd \/ ClearData \/ close \/ CleanupError \/ sys_exit

Spec == Init /\ [][Next]_vars

(***************************************************************************)
(* The poll loop alone, from the end of the startup animation on, with no  *)
(* signal and no bus failure.                                              *)
(***************************************************************************)
\* the bus writes of one complete display_image call
DisplayImageLog(img, w, h) ==
    LET n == 3 + w
    IN  [i \in 1 .. (h \div 8) * n |->
           LET pg == (i - 1) \div n
               j == (i - 1) % n
           IN  IF j < 3 THEN [reg |-> CMD_REG, val |-> AddrCmd(pg, j)]
               ELSE [reg |-> DATA_REG, val |-> PageByte(img, h, pg, j - 3)]]

InitAnim ==
    /\ pc = "get_llm_status" /\ phase = "try" /\ caller = "startup"
    /\ oled = "SSD1306" /\ bus = "open"
    /\ width = OledW /\ height = 8 * OledPages
    /\ image \in Raster(width, height)
    /\ page = pages - 1 /\ k = 3 + width - 1
    /\ idx = Len(init_cmds) /\ step = StartupSteps
    /\ SERVICE_RUNNING = FALSE /\ GENERATING = FALSE /\ CONNECTED = FALSE
    /\ frame_index = 0
    /\ scene = [kind |-> "Startup", pos |-> 0, angle |-> 0,
                tick |-> eye_height_max - 1]
    /\ slept = 0
    /\ sent = DisplayImageLog(image, width, height) /\ obs = NoObs
    /\ dummy_npu_val = 0 /\ direction = 1

NextAnim ==
    \/ get_llm_status \/ check_luna_active \/ Draw \/ Sleep
    \/ DisplayImageCmd \/ DisplayImageData
    \/ (frame_index < MaxTicks /\ Inc)

SpecAnim == InitAnim /\ [][NextAnim]_vars

(***************************************************************************)
(* Blanking the panel both ways on the same driver object: display_image   *)
(* of an all-zero bitmap of the panel's size, then clear().                *)
(***************************************************************************)
InitBlank ==
    /\ pc = "render" /\ phase = "try" /\ caller = "blank"
    /\ oled = "SSD1306" /\ bus = "open"
    /\ width \in 1 .. BlankW
    /\ height \in {8 * p : p \in 1 .. BlankPages}
    /\ image = {}
    /\ page = 0 /\ k = 0 /\ idx = 0 /\ step = 0
    /\ SERVICE_RUNNING = FALSE /\ GENERATING = FALSE /\ CONNECTED = FALSE
    /\ frame_index = 0 /\ scene = NoScene /\ slept = 0
    /\ sent = <<>> /\ obs = NoObs
    /\ dummy_npu_val = 0 /\ direction = 1

\* display_image has returned; clear() is called next
ThenClear ==
    /\ pc = "rendered" /\ caller = "blank"
    /\ obs' = [obs EXCEPT !.blank = sent]
    /\ pc' = "clear" /\ page' = 0 /\ k' = 0 /\ sent' = <<>>
    /\ UNCHANGED <<phase, caller, oled, bus, width, height, image, idx, step,
                   SERVICE_RUNNING, GENERATING, CONNECTED, frame_index,
                   scene, slept>>
    /\ UNCHANGED dash

NextBlank ==
    \/ DisplayImageCmd \/ DisplayImageData \/ ThenClear
    \/ ClearCmd \/ ClearData

SpecBlank == InitBlank /\ [][NextBlank]_vars

(***************************************************************************)
(* The dashboard loop of display.py, from the constructor's return on.     *)
(***************************************************************************)
\* the bounce test with its lower limit left out
bounce_test_upper(val) == val >= 100

\* if dummy_npu_val >= 100 or dummy_npu_val <= 0:
bounce_test(val) == val >= 100 \/ val <= 0

\* dummy_npu_val += 5 * direction, and the turn at either end
Bounce ==
    /\ pc = "bounce"
    /\ LET moved == dummy_npu_val + 5 * direction
       IN  IF bounce_test(moved)
           THEN /\ direction' = direction * (-1)
                /\ dummy_npu_val' = moved + 5 * direction'
           ELSE /\ direction' = direction
                /\ dummy_npu_val' = moved
    /\ pc' = "draw_dashboard"
    /\ UNCHANGED <<phase, caller, oled, bus, width, height, image, page, k,
                   idx, step, SERVICE_RUNNING, GENERATING, CONNECTED,
                   frame_index, scene, slept, sent, obs>>

\* cpu, ram, bat are sampled and draw_dashboard renders them with
\* dummy_npu_val into a frame; oled.display_image(frame) is entered
DrawDashboard ==
    /\ pc = "draw_dashboard"
    /\ image' \in Raster(width, height)
    /\ caller' = "dash" /\ pc' = "render"
    /\ page' = 0 /\ k' = 0 /\ sent' = <<>>
    /\ obs' = [obs EXCEPT !.npu = dummy_npu_val]
    /\ UNCHANGED <<phase, oled, bus, width, height, idx, step,
                   SERVICE_RUNNING, GENERATING, CONNECTED, frame_index,
                   scene, slept>>
    /\ UNCHANGED dash

\* time.sleep(1), and back to the head of the loop
DashSleep ==
    /\ pc = "dash_sleep"
    /\ slept' = 1000 /\ pc' = "bounce"
    /\ UNCHANGED <<phase, caller, oled, bus, width, height, image, page, k,
                   idx, step, SERVICE_RUNNING, GENERATING, CONNECTED,
                   frame_index, scene, sent, obs>>
    /\ UNCHANGED dash

InitDash ==
    /\ pc = "bounce" /\ phase = "try" /\ caller = "none"
    /\ oled = "SSD1306" /\ bus = "open"
    /\ width = OledW /\ height = 8 * OledPages
    /\ image = {}
    /\ page = 0 /\ k = 0 /\ idx = Len(init_cmds) /\ step = 0
    /\ SERVICE_RUNNING = FALSE /\ GENERATING = FALSE /\ CONNECTED = FALSE
    /\ frame_index = 0 /\ scene = NoScene /\ slept = 0
    /\ sent = [i \in 1 .. Len(init_cmds) |->
                 [reg |-> CMD_REG, val |-> init_cmds[i]]]
    /\ obs = NoObs
    /\ dummy_npu_val = 0 /\ direction = 1

NextDash ==
    \/ Bounce \/ DrawDashboard \/ DisplayImageCmd \/ DisplayImageData
    \/ DashSleep

SpecDash == InitDash /\ [][NextDash]_vars

(***************************************************************************)
(* The poll loop with an observer that remembers, once, the status of a    *)
(* tick and the scene kind drawn for it, to compare later ticks with.      *)
(***************************************************************************)
Remember ==
    /\ pc = "inc" /\ obs.ref.kind = "none"
    /\ obs' = [obs EXCEPT !.ref = [up |-> SERVICE_RUNNING, peer |-> CONNECTED,
                                    gen |-> GENERATING, kind |-> scene.kind]]
    /\ UNCHANGED <<pc, phase, caller, oled, bus, width, height, image, page,
                   k, idx, step, SERVICE_RUNNING, GENERATING, CONNECTED,
                   frame_index, scene, slept, sent>>
    /\ UNCHANGED dash

NextReplay == NextAnim \/ Remember

SpecReplay == InitAnim /\ [][NextReplay]_vars

(***************************************************************************)
(* Properties.                                                             *)
(***************************************************************************)

(***************************************************************************)
(* Reading a bus log back: the log cut into page transfers, each a run of  *)
(* command bytes followed by a run of data bytes.                          *)
(***************************************************************************)
RECURSIVE Chunks(_)
Chunks(log) ==
    IF log = <<>> THEN <<>>
    ELSE LET e == Head(log)
             rest == Chunks(Tail(log))
         IN  IF e.reg = DATA_REG
             THEN IF rest # <<>> /\ Head(rest).cmds = <<>>
                  THEN <<[cmds |-> <<>>, data |-> <<e.val>> \o Head(rest).data]>>
                       \o Tail(rest)
                  ELSE <<[cmds |-> <<>>, data |-> <<e.val>>]>> \o rest
             ELSE IF rest # <<>>
                  THEN <<[cmds |-> <<e.val>> \o Head(rest).cmds,
                          data |-> Head(rest).data]>> \o Tail(rest)
                  ELSE <<[cmds |-> <<e.val>>, data |-> <<>>]>>

\* the data bytes display_image emits for img, page after page
Encode(img, w, h) ==
    [p \in 1 .. h \div 8 |-> [x \in 1 .. w |-> PageByte(img, h, p - 1, x - 1)]]

\* the data bytes of a sequence of page transfers, page after page
PageData(ch) == [p \in 1 .. Len(ch) |-> ch[p].data]

\* the bitmap that pages of data bytes show on a panel w wide
Decode(pgs, w) ==
    {q \in Pixels(w, 8 * Len(pgs)) :
       LET d == pgs[(q[2] \div 8) + 1]
       IN  q[1] + 1 <= Len(d) /\ BitOf(d[q[1] + 1], q[2] % 8) = 1}

\* img with pixel q inverted
Flip(img, q) == IF q \in img THEN img \ {q} ELSE img \cup {q}

\* pgs decodes to img, and inverting any one pixel of img changes the byte
\* of that pixel's page and column, so the other encoding is not pgs
RoundTrips(pgs, img, w, h) ==
    /\ Decode(pgs, w) = img
    /\ Len(pgs) = h \div 8
    /\ \A q \in Pixels(w, h) :
          /\ Len(pgs[(q[2] \div 8) + 1]) = w
          /\ PageByte(Flip(img, q), h, q[2] \div 8, q[1])
               # pgs[(q[2] \div 8) + 1][q[1] + 1]

\* C1: a completed display_image has emitted H/8 pages of W data bytes, and
\* bit b of byte x of page p is 1 exactly when pixel (x, 8p+b) is set.
C1_EncodingCorrect ==
    pc = "rendered" =>
      LET ch == Chunks(sent)
      IN  /\ Len(ch) * 8 = height
          /\ \A p \in 0 .. Len(ch) - 1 :
                /\ Len(ch[p + 1].data) = width
                /\ \A x \in 0 .. width - 1 : \A b \in 0 .. 7 :
                      (BitOf(ch[p + 1].data[x + 1], b) = 1)
                        <=> (<<x, 8 * p + b>> \in image)

C1_Witness ==
    /\ pc = "rendered" /\ width = 2 /\ height = 16
    /\ image = {<<1, 3>>, <<0, 13>>}
    /\ Encode(image, width, height) = <<(<<0, 8>>), (<<32, 0>>)>>

\* C2: the bitmap rebuilt from the emitted data bytes is the input bitmap,
\* and a bitmap that differs from it in one pixel encodes differently.
C2_RoundTrip ==
    pc = "rendered" =>
      RoundTrips(PageData(Chunks(sent)), image, width, height)

C2_Witness ==
    /\ pc = "rendered" /\ width = 2 /\ height = 16
    /\ image = Pixels(width, height)
    /\ Decode(PageData(Chunks(sent)), width) = image

\* C9: display_image sends the pages in the order 0, 1, .., H/8 - 1, each as
\* the commands 0xB0 + p, 0x00, 0x10 followed by W data bytes and nothing else.
C9_PageOrder ==
    pc \in {"render", "rendered"} =>
      LET ch == Chunks(sent)
          n == Len(ch)
          Prefix(a, b) == Len(a) <= Len(b) /\ a = SubSeq(b, 1, Len(a))
      IN  /\ n <= pages
          /\ \A i \in 1 .. n :
                /\ Prefix(ch[i].cmds, <<176 + (i - 1), 0, 16>>)
                /\ Len(ch[i].data) <= width
                /\ ch[i].data # <<>> => Len(ch[i].cmds) = 3
                /\ i < n => Len(ch[i].data) = width
          /\ pc = "render" => Len(sent) = page * (3 + width) + k
          /\ pc = "rendered" =>
                /\ n = pages
                /\ Len(ch[n].data) = width
                /\ Len(sent) = pages * (3 + width)

C9_Witness ==
    /\ pc = "rendered" /\ width = 2 /\ height = 16
    /\ [i \in 1 .. Len(sent) |-> sent[i].reg] =
         <<0, 0, 0, 64, 64, 0, 0, 0, 64, 64>>
    /\ sent[1].val = 176 /\ sent[6].val = 177
(***************************************************************************)
(* Scene selection and animation (the poll loop).                          *)
(***************************************************************************)
\* the priority table, its four conditions written out
PriorityTable(up, peer, gen) ==
    CASE ~up -> "Offline"
      [] up /\ peer -> "Connected"
      [] up /\ ~peer /\ gen -> "Thinking"
      [] up /\ ~peer /\ ~gen -> "ServicesReady"

\* C3: the scene drawn in a tick is the one the priority table gives for the
\* status of that tick, for all 8 combinations; all three true is Connected.
C3_Priority ==
    /\ obs.drawn =>
         scene.kind = PriorityTable(SERVICE_RUNNING, CONNECTED, GENERATING)
    /\ \A up \in BOOLEAN : \A peer \in BOOLEAN : \A gen \in BOOLEAN :
         SceneKind(up, peer, gen) = PriorityTable(up, peer, gen)
    /\ obs.drawn /\ SERVICE_RUNNING /\ CONNECTED /\ GENERATING
         => scene.kind = "Connected"

C3_Witness ==
    /\ obs.drawn /\ SERVICE_RUNNING /\ CONNECTED /\ GENERATING
    /\ scene.kind = "Connected" /\ pc = "inc"

\* C4 as stated: the first 4 ticks of a run of ServicesReady ticks draw the
\* offsets -4, 0, 4, 0 in that order, and so do the next 4, whatever came
\* before the run.
C4_Original ==
    LET run == obs.readyRun
    IN  /\ Len(run) >= 4 => SubSeq(run, 1, 4) = <<-4, 0, 4, 0>>
        /\ Len(run) = 8 => SubSeq(run, 5, 8) = <<-4, 0, 4, 0>>

\* C4, amended: the offset of a ServicesReady tick is the entry of
\* -4, 0, 4, 0 at frame_index mod 4, so 4 consecutive ticks draw a rotation
\* of -4, 0, 4, 0 that starts at -4 only when the run starts at a multiple
\* of 4, and the next 4 ticks repeat the same 4 offsets.
C4_ReadyCycle ==
    LET run == obs.readyRun
        cycle == <<-4, 0, 4, 0>>
    IN  /\ \A i \in 1 .. Len(run) :
              run[i] = cycle[((obs.readyEntry + i - 1) % 4) + 1]
        /\ Len(run) = 8 => SubSeq(run, 1, 4) = SubSeq(run, 5, 8)
        /\ Len(run) >= 4 /\ obs.readyEntry % 4 = 0
              => SubSeq(run, 1, 4) = cycle
        /\ scene.kind = "ServicesReady"
              => scene.pos = cycle[(scene.tick % 4) + 1]

C4_Witness ==
    /\ Len(obs.readyRun) = 8 /\ obs.readyEntry % 4 = 1
    /\ obs.readyRun = <<0, 4, 0, -4, 0, 4, 0, -4>>
    /\ scene.kind = "ServicesReady"

\* C5 as stated: the angle of a Thinking tick is the result of adding 15
\* modulo 360 on each tick, so it lies in [0, 360) and is 0 again at tick 24.
C5_Original ==
    scene.kind = "Thinking" =>
      /\ scene.angle \in 0 .. 359
      /\ scene.angle = (15 * scene.tick) % 360

\* C5, amended: the angle of a Thinking tick is 15 * frame_index, not
\* reduced: it reaches 360 at tick 24 and grows on; it is congruent modulo
\* 360 to 15 * (frame_index mod 24), so the drawn phase repeats every 24 ticks.
C5_AngleUnreduced ==
    /\ obs.drawn => scene.tick = frame_index
    /\ scene.kind = "Thinking" =>
         /\ scene.angle = 15 * scene.tick
         /\ scene.angle % 360 = 15 * (scene.tick % 24)
         /\ scene.tick >= 24 => scene.angle >= 360

C5_Witness ==
    scene.kind = "Thinking" /\ scene.tick = 24 /\ scene.angle = 360

(***************************************************************************)
(* The whole program.                                                      *)
(***************************************************************************)
\* C6: a failed health fetch (timeout, connection failure, non-200) leaves
\* the status "service down", draws Offline whatever the previous tick
\* showed, and raises nothing into main().
C6_FailedFetchOffline ==
    obs.fetch = "failed" =>
      /\ ~SERVICE_RUNNING /\ ~GENERATING
      /\ obs.raisedBy # "health"
      /\ pc # "get_llm_status"
      /\ obs.drawn =>
           /\ scene.kind = "Offline"
           /\ scene.kind = PriorityTable(FALSE, CONNECTED, GENERATING)

C6_Witness ==
    /\ obs.fetch = "failed" /\ obs.drawn /\ scene.kind = "Offline"
    /\ obs.prev = "Thinking" /\ CONNECTED /\ pc = "inc"

\* C7: once one call of cleanup() has completed, a further call neither
\* writes to the closed bus handle nor closes it a second time.
C7_Idempotent ==
    obs.completed >= 1 => obs.closedWrites = 0 /\ obs.closes <= 1

\* C8: when the process has exited, cleanup() has run exactly once.
C8_ExactlyOnce ==
    pc = "exited" => obs.cleanups = 1

\* C10: init_display sends only commands, display off (0xAE) first and
\* display on (0xAF) last and nowhere else, with addressing mode, scan
\* direction, contrast, multiplex ratio, clock divider and charge pump
\* (0x8D, 0x14) in that order in between, and COM configuration (0xDA)
\* before display on.
C10_InitOrder ==
    pc \in {"init", "assign"} =>
      LET n == Len(sent)
          First(v) == IF \E i \in 1 .. n : sent[i].val = v
                      THEN CHOOSE i \in 1 .. n :
                             /\ sent[i].val = v
                             /\ \A j \in 1 .. i - 1 : sent[j].val # v
                      ELSE 0
      IN  /\ \A i \in 1 .. n : sent[i].reg = CMD_REG
          /\ n >= 1 => sent[1].val = 174
          /\ \A i \in 1 .. n : sent[i].val = 175 => i = 28 /\ pc = "assign"
          /\ pc = "init" => n = idx /\ n < 28
          /\ pc = "assign" =>
               /\ n = 28 /\ sent[n].val = 175
               /\ First(174) = 1
               /\ First(174) < First(32) /\ First(32) < First(200)
               /\ First(200) < First(129) /\ First(129) < First(168)
               /\ First(168) < First(213) /\ First(213) < First(141)
               /\ sent[First(141) + 1].val = 20
               /\ First(141) + 1 < First(175)
               /\ First(168) < First(218) /\ First(218) < First(175)

C10_Witness ==
    /\ pc = "assign" /\ Len(sent) = 28
    /\ sent[26].val = 141 /\ sent[27].val = 20 /\ sent[28].val = 175
(***************************************************************************)
(* Error handling and shutdown.                                            *)
(***************************************************************************)
\* the positions of the poll loop
LoopPcs ==
    {"get_llm_status", "check_luna_active", "draw", "sleep", "render", "inc"}

\* C11: a bus write that fails during a render of the loop does not end the
\* loop: with no signal delivered, the program is still in the loop.
C11_WriteFailureRecovered ==
    obs.raisedBy = "write" /\ caller = "loop" /\ obs.signals = 0
      => pc \in LoopPcs

\* C12: a malformed payload of the health endpoint leaves the status
\* "service down" and raises nothing into main(), and nothing the
\* peer-active endpoint answers raises into main().
C12_MalformedCollapses ==
    /\ obs.fetch = "malformed" =>
         ~SERVICE_RUNNING /\ ~GENERATING /\ obs.raisedBy # "health"
    /\ obs.raisedBy # "luna"

\* C13: when cleanup() is about to release the bus, the writes of this
\* shutdown are a clear of every page followed by display off (0xAE).
C13_ShutdownOrder ==
    pc = "close" =>
      /\ Len(sent) = pages * (3 + width) + 1
      /\ sent[Len(sent)] = [reg |-> CMD_REG, val |-> 174]
      /\ \A i \in 1 .. Len(sent) - 1 :
           sent[i].reg = DATA_REG => sent[i].val = 0
\* C14: the scene kind of a tick depends on that tick's status alone: a
\* tick whose status equals the status remembered from an earlier tick draws
\* the kind drawn then, whatever frame_index is and whatever came between.
C14_KindFromStatusOnly ==
    obs.drawn /\ obs.ref.kind # "none"
      /\ SERVICE_RUNNING = obs.ref.up /\ CONNECTED = obs.ref.peer
      /\ GENERATING = obs.ref.gen
      => scene.kind = obs.ref.kind

C14_Witness ==
    /\ pc = "sleep" /\ obs.drawn /\ obs.ref.kind = "Thinking"
    /\ SERVICE_RUNNING /\ ~CONNECTED /\ GENERATING
    /\ scene.kind = "Thinking" /\ obs.prev = "Connected" /\ frame_index >= 2

\* C15: no write of a render or clear happens before init_display has sent
\* all its commands, and no write is tried on the closed bus.
C15_InitFirstNoWriteAfterClose ==
    /\ pc \in {"render", "clear"} /\ sent # <<>> => idx = Len(init_cmds)
    /\ obs.closedWrites = 0

\* C16: when the process has exited, the bus handle the constructor opened
\* has been closed.
C16_BusReleased ==
    pc = "exited" => bus # "open"

\* C17: when opening the bus fails, nothing is written, no startup frame is
\* drawn, no poll is made, the loop is not entered, and the program is on
\* its way out.
C17_BusUnavailableAborts ==
    obs.raisedBy = "open" =>
      /\ bus = "none" /\ oled = "None"
      /\ sent = <<>> /\ obs.closedWrites = 0 /\ obs.closes = 0
      /\ scene = NoScene /\ step = 0
      /\ obs.fetch = "none" /\ ~obs.drawn /\ frame_index = 0
      /\ pc \in {"fatal", "cleanup", "sys_exit", "exited"}

C17_Witness ==
    obs.raisedBy = "open" /\ pc = "exited" /\ obs.cleanups = 1

\* the sleep of the priority table, in milliseconds
TableMs(kind) ==
    CASE kind = "Offline" -> 2000
      [] kind = "Connected" -> 2000
      [] kind = "Thinking" -> 20
      [] kind = "ServicesReady" -> 500

\* C18 as stated: a completed iteration has suspended exactly once, for the
\* duration the priority table gives for its scene.
C18_Original ==
    pc = "inc" =>
      /\ obs.naps + obs.settles = 1
      /\ slept = TableMs(scene.kind)

\* C18, amended: an iteration calls the loop's own time.sleep exactly once,
\* for the duration the priority table gives for its scene; its render then
\* suspends 1 ms more after each of its 3 * pages addressing commands.
C18_SleepPerTick ==
    /\ obs.naps <= 1
    /\ pc \in {"get_llm_status", "check_luna_active", "draw", "sleep"}
         => obs.naps = 0 /\ obs.settles = 0
    /\ pc \in {"render", "inc"} /\ caller = "loop" =>
         /\ obs.naps = 1
         /\ slept = TableMs(scene.kind)
    /\ pc = "render" /\ caller = "loop" =>
         obs.settles = 3 * page + (IF k < 3 THEN k ELSE 3)
    /\ pc = "inc" => obs.settles = 3 * pages

C18_Witness ==
    /\ pc = "inc" /\ scene.kind = "Thinking" /\ slept = 20
    /\ obs.naps = 1 /\ obs.settles = 3 * pages

\* C19: once the sleep of an iteration has begun, the scene of that
\* iteration is already on the display.
C19_RenderBeforeSleep ==
    pc \in LoopPcs /\ obs.naps = 1 => pc = "inc"

\* C20 as stated: a tick that drew Connected or Offline leaves the pupil
\* phase and the angle of the next tick as they were.
C20_Original ==
    [][pc = "inc" /\ scene.kind \in {"Connected", "Offline"}
         => /\ PupilPos(frame_index') = PupilPos(frame_index)
            /\ Angle(frame_index') = Angle(frame_index)]_vars

\* C20, amended: Connected and Offline draw no animation parameter, but the
\* tick still adds 1 to frame_index, so the angle of the next tick is 15
\* more and its pupil phase one step further, as after any other tick.
C20_StaticButCounted ==
    /\ [](scene.kind \in {"Connected", "Offline"}
            => scene.pos = 0 /\ scene.angle = 0)
    /\ [][pc = "inc" /\ pc' # "inc"
            => /\ frame_index' = frame_index + 1
               /\ scene' = scene
               /\ Angle(frame_index') = Angle(frame_index) + 15
               /\ PupilPos(frame_index')
                    = <<-4, 0, 4, 0>>[((frame_index + 1) % 4) + 1]]_vars

C20_Witness ==
    /\ obs.drawn /\ obs.prev = "Offline" /\ frame_index = 1
    /\ scene.kind = "ServicesReady" /\ scene.pos = 0
\* a status poll has been made
Polled == obs.fetch # "none" \/ caller = "loop"

\* C21: the startup animation renders exactly 10 frames, all of them before
\* the first status poll, and once a poll has been made no startup frame is
\* drawn or rendered again.
C21_StartupOnce ==
    /\ [](/\ step <= 10
          /\ Polled => step = 10
          /\ pc = "startup" \/ (pc = "render" /\ caller = "startup")
               => ~Polled /\ frame_index = 0
          /\ scene.kind = "Startup" => scene.tick = 1 + 2 * step
                                         \/ scene.tick = 2 * step - 1)
    /\ [][/\ step' # step =>
               /\ step' = step + 1 \/ (step' = 0 /\ pc = "assign")
               /\ ~Polled
          /\ Polled =>
               /\ Polled' /\ step' = step /\ pc' # "startup"
               /\ scene' # scene => scene'.kind # "Startup"]_vars

C21_Witness ==
    /\ pc = "inc" /\ caller = "loop" /\ step = 10 /\ frame_index = 2
    /\ scene.kind = "Thinking" /\ obs.prev = "Offline"
\* C22: clear() puts on the bus the same sequence of command and data writes
\* as display_image of the all-zero bitmap, write by write, for every width
\* and every height that is a multiple of 8.
C22_ClearIsZeroRender ==
    pc \in {"clear", "close"} /\ caller = "blank" =>
      /\ Len(obs.blank) = pages * (3 + width)
      /\ Len(sent) <= Len(obs.blank)
      /\ \A i \in 1 .. Len(sent) : sent[i] = obs.blank[i]
      /\ pc = "close" => sent = obs.blank

C22_Witness ==
    /\ pc = "close" /\ caller = "blank" /\ width = 3 /\ height = 24
    /\ sent = obs.blank /\ Len(sent) = 18
    /\ sent[7] = [reg |-> CMD_REG, val |-> 177]
    /\ sent[18] = [reg |-> DATA_REG, val |-> 0]
\* C23: in the dashboard loop the NPU value passed to draw_dashboard is on
\* every iteration a multiple of 5 from 0 to 100, and direction is always
\* +1 or -1.
C23_NpuBounce ==
    /\ direction \in {1, -1}
    /\ pc = "draw_dashboard" =>
         dummy_npu_val % 5 = 0 /\ 0 <= dummy_npu_val /\ dummy_npu_val <= 100
    /\ caller = "dash" =>
         obs.npu % 5 = 0 /\ 0 <= obs.npu /\ obs.npu <= 100

C23_Witness ==
    /\ caller = "dash" /\ pc = "draw_dashboard"
    /\ obs.npu = 10 /\ dummy_npu_val = 5 /\ direction = -1
====
